---- MODULE Spec2Model ----
(***************************************************************************)
(* Model of src/src/llm.py: the two coroutines get_completion and          *)
(* get_completion_structured, run as asyncio tasks that share the one      *)
(* module-level AsyncOpenAI client.                                        *)
(*                                                                         *)
(* A task is one call of one of the two coroutines.  The transport (the    *)
(* client) answers an in-flight request either by returning a response     *)
(* (a non-empty list of choices) or by raising an error; the event loop    *)
(* may also cancel a task at any of its await points.                      *)
(***************************************************************************)
EXTENDS Integers, Sequences, FiniteSets, TLC

\* ------------------------------------------------------------------ bounds
\* Largest max_retries argument tried (the smallest is -1).
MaxRetriesArg == 2
\* Largest retry_delay argument tried, in clock ticks (the smallest is 1).
MaxDelay == 1
\* Largest number of choices in one transport response (the calls pass no n,
\* and the service then answers with one choice).
MaxChoices == 1
\* How long past its deadline a sleeping task may be left before it is woken.
MaxOvershoot == 1

\* The concurrently running tasks.
Tasks == {"t1", "t2"}

\* ------------------------------------------------------------- value sets
\* Python's None, and the markers of "nothing returned / raised yet".
None == "None"
NoResult == "NoResult"
NoError == "NoError"

\* asyncio.CancelledError derives from BaseException, not from Exception.
CancelledError == "CancelledError"
\* Errors the transport raises: all of them derive from Exception.
TransportErrors == {"APIConnectionError", "ValidationError"}

\* Messages of chat.completions.create: a text content.
TextMessages == {[content |-> "pong"], [content |-> "other"]}
\* Messages of beta.chat.completions.parse: content parsed and validated
\* against response_format, or a refusal, whose parsed field is None.
ParsedMessages == {[content |-> "json", parsed |-> "obj"],
                   [content |-> None, parsed |-> None]}
\* The instances of the caller's response_model.
SchemaInstances == {"obj"}

SeqsUpTo(S, n) == UNION {[1..k -> S] : k \in 1..n}
TextResponses == SeqsUpTo(TextMessages, MaxChoices)
ParsedResponses == SeqsUpTo(ParsedMessages, MaxChoices)

RetryArgs == (-1)..MaxRetriesArg
DelayArgs == 1..MaxDelay

VARIABLES
    fn,            \* the coroutine the task runs ("none" before the call)
    max_retries,   \* argument of get_completion_structured
    retry_delay,   \* argument of get_completion_structured
    pc,            \* where the task is
    attempt,       \* the loop variable of get_completion_structured
    result,        \* the value the call returned
    error,         \* the exception the call raised
    cancelled,     \* task.cancel() was called on the task
    sleepFor,      \* the delay given to the pending asyncio.sleep
    elapsed,       \* ticks since the pending asyncio.sleep started
    invocations,   \* transport: requests this task has issued
    inflight,      \* transport: requests of this task not yet resolved
    failures,      \* transport: errors it raised to this task, in order
    response,      \* transport: the response it returned to this task
    pauses         \* event loop: asyncio.sleep calls this task has started

vars == <<fn, max_retries, retry_delay, pc, attempt, result, error, cancelled,
          sleepFor, elapsed, invocations, inflight, failures, response, pauses>>

callVars == <<fn, max_retries, retry_delay>>

Init ==
    /\ fn = [t \in Tasks |-> "none"]
    /\ max_retries = [t \in Tasks |-> 0]
    /\ retry_delay = [t \in Tasks |-> 0]
    /\ pc = [t \in Tasks |-> "idle"]
    /\ attempt = [t \in Tasks |-> 0]
    /\ result = [t \in Tasks |-> NoResult]
    /\ error = [t \in Tasks |-> NoError]
    /\ cancelled = [t \in Tasks |-> FALSE]
    /\ sleepFor = [t \in Tasks |-> 0]
    /\ elapsed = [t \in Tasks |-> 0]
    /\ invocations = [t \in Tasks |-> 0]
    /\ inflight = [t \in Tasks |-> 0]
    /\ failures = [t \in Tasks |-> <<>>]
    /\ response = [t \in Tasks |-> <<>>]
    /\ pauses = [t \in Tasks |-> 0]

Min(a, b) == IF a < b THEN a ELSE b

\* ---------------------------------------------------- pieces of the code
\* response.choices[0].message.content
Content(choices) == choices[1].content

\* Variant: the raw content instead of the parsed object.
ContentInsteadOfParsed(choices) == choices[1].content

\* response.choices[0].message.parsed
ParsedOf(choices) == choices[1].parsed

\* Variant: a negative max_retries is clamped to a single attempt.
RangeEndClamped(mr) == IF mr < 0 THEN 1 ELSE mr + 1

\* for attempt in range(max_retries + 1): the end of the range
RangeEnd(mr) == mr + 1

\* Variant: a bare except, which catches CancelledError too.
CatchesBaseException(e) == TRUE

\* except Exception: the clause catches e
Catches(e) == e # CancelledError

\* Variant: attempt <= max_retries.
ShouldRetryInclusive(i, mr) == i <= mr

\* if attempt < max_retries
ShouldRetry(i, mr) == i < mr

\* Variant: the exponential backoff the docstring announces.
SleepDurationExponential(delay, i) == delay * (2 ^ i)

\* asyncio.sleep(retry_delay): the delay asked for after failed attempt i
SleepDuration(delay, i) == delay

\* The transport takes one more request of task t.
Invoke(t) ==
    /\ invocations' = [invocations EXCEPT ![t] = @ + 1]
    /\ inflight' = [inflight EXCEPT ![t] = @ + 1]

\* The in-flight request of task t is over (answered, or released).
Resolve(t) == inflight' = [inflight EXCEPT ![t] = @ - 1]

\* Variant: the loop counter is one module-level variable shared by all calls.
LoopHeadShared(t, i, mr) ==
    IF i < RangeEnd(mr)
    THEN /\ attempt' = [u \in Tasks |-> i]
         /\ pc' = [pc EXCEPT ![t] = "await_parse"]
         /\ Invoke(t)
         /\ UNCHANGED result
    ELSE /\ pc' = [pc EXCEPT ![t] = "returned"]
         /\ result' = [result EXCEPT ![t] = None]
         /\ UNCHANGED <<attempt, invocations, inflight>>

\* The head of the for loop with index i: the body starts with the await of
\* client.beta.chat.completions.parse; past the end of the range the function
\* ends without a return statement, that is, it returns None.
LoopHead(t, i, mr) ==
    IF i < RangeEnd(mr)
    THEN /\ attempt' = [attempt EXCEPT ![t] = i]
         /\ pc' = [pc EXCEPT ![t] = "await_parse"]
         /\ Invoke(t)
         /\ UNCHANGED result
    ELSE /\ pc' = [pc EXCEPT ![t] = "returned"]
         /\ result' = [result EXCEPT ![t] = None]
         /\ UNCHANGED <<attempt, invocations, inflight>>

\* Exception e leaves the task.
Propagate(t, e) ==
    /\ pc' = [pc EXCEPT ![t] = "raised"]
    /\ error' = [error EXCEPT ![t] = e]
    /\ sleepFor' = [sleepFor EXCEPT ![t] = 0]
    /\ elapsed' = [elapsed EXCEPT ![t] = 0]

\* Variant: after the last attempt the handler raises the error of the first
\* attempt instead of the one it caught.
ExceptHandlerRaisesFirst(t, e) ==
    IF Catches(e) /\ ShouldRetry(attempt[t], max_retries[t])
    THEN /\ pc' = [pc EXCEPT ![t] = "await_sleep"]
         /\ sleepFor' = [sleepFor EXCEPT ![t] =
                            SleepDuration(retry_delay[t], attempt[t])]
         /\ elapsed' = [elapsed EXCEPT ![t] = 0]
         /\ pauses' = [pauses EXCEPT ![t] = @ + 1]
         /\ UNCHANGED error
    ELSE /\ Propagate(t, IF Catches(e) THEN failures'[t][1] ELSE e)
         /\ UNCHANGED pauses

\* Exception e is raised inside the try block of attempt[t].
ExceptHandler(t, e) ==
    IF Catches(e) /\ ShouldRetry(attempt[t], max_retries[t])
    THEN /\ pc' = [pc EXCEPT ![t] = "await_sleep"]
         /\ sleepFor' = [sleepFor EXCEPT ![t] =
                            SleepDuration(retry_delay[t], attempt[t])]
         /\ elapsed' = [elapsed EXCEPT ![t] = 0]
         /\ pauses' = [pauses EXCEPT ![t] = @ + 1]
         /\ UNCHANGED error
    ELSE /\ Propagate(t, e)
         /\ UNCHANGED pauses

\* ------------------------------------------------------- get_completion
Call_get_completion(t) ==
    /\ pc[t] = "idle"
    /\ fn' = [fn EXCEPT ![t] = "get_completion"]
    /\ pc' = [pc EXCEPT ![t] = "await_create"]
    /\ Invoke(t)
    /\ UNCHANGED <<max_retries, retry_delay, attempt, result, error, cancelled,
                   sleepFor, elapsed, failures, response, pauses>>

CreateReturns(t, r) ==
    /\ pc[t] = "await_create"
    /\ response' = [response EXCEPT ![t] = r]
    /\ Resolve(t)
    /\ pc' = [pc EXCEPT ![t] = "returned"]
    /\ result' = [result EXCEPT ![t] = Content(r)]
    /\ UNCHANGED <<callVars, attempt, error, cancelled, sleepFor, elapsed,
                   invocations, failures, pauses>>

\* Variant: the transport's error is swallowed and None returned.
CreateRaisesSwallowed(t, e) ==
    /\ pc[t] = "await_create"
    /\ failures' = [failures EXCEPT ![t] = Append(@, e)]
    /\ Resolve(t)
    /\ pc' = [pc EXCEPT ![t] = "returned"]
    /\ result' = [result EXCEPT ![t] = None]
    /\ UNCHANGED <<callVars, attempt, error, cancelled, sleepFor, elapsed,
                   invocations, response, pauses>>

CreateRaises(t, e) ==
    /\ pc[t] = "await_create"
    /\ failures' = [failures EXCEPT ![t] = Append(@, e)]
    /\ Resolve(t)
    /\ Propagate(t, e)
    /\ UNCHANGED <<callVars, attempt, result, cancelled, invocations,
                   response, pauses>>

\* --------------------------------------------- get_completion_structured
Call_get_completion_structured(t, mr, delay) ==
    /\ pc[t] = "idle"
    /\ fn' = [fn EXCEPT ![t] = "get_completion_structured"]
    /\ max_retries' = [max_retries EXCEPT ![t] = mr]
    /\ retry_delay' = [retry_delay EXCEPT ![t] = delay]
    /\ LoopHead(t, 0, mr)
    /\ UNCHANGED <<error, cancelled, sleepFor, elapsed, failures, response,
                   pauses>>

ParseReturns(t, r) ==
    /\ pc[t] = "await_parse"
    /\ response' = [response EXCEPT ![t] = r]
    /\ Resolve(t)
    /\ pc' = [pc EXCEPT ![t] = "returned"]
    /\ result' = [result EXCEPT ![t] = ParsedOf(r)]
    /\ UNCHANGED <<callVars, attempt, error, cancelled, sleepFor, elapsed,
                   invocations, failures, pauses>>

ParseRaises(t, e) ==
    /\ pc[t] = "await_parse"
    /\ failures' = [failures EXCEPT ![t] = Append(@, e)]
    /\ Resolve(t)
    /\ ExceptHandler(t, e)
    /\ UNCHANGED <<callVars, attempt, result, cancelled, invocations,
                   response>>

\* asyncio.sleep returns once its delay has elapsed; continue.
SleepDone(t) ==
    /\ pc[t] = "await_sleep"
    /\ elapsed[t] >= sleepFor[t]
    /\ sleepFor' = [sleepFor EXCEPT ![t] = 0]
    /\ elapsed' = [elapsed EXCEPT ![t] = 0]
    /\ LoopHead(t, attempt[t] + 1, max_retries[t])
    /\ UNCHANGED <<callVars, error, cancelled, failures, response, pauses>>

\* ------------------------------------------------------------ event loop
\* The clock advances by one tick for every sleeping task.
Tick ==
    /\ \E t \in Tasks :
          pc[t] = "await_sleep" /\ elapsed[t] < sleepFor[t] + MaxOvershoot
    /\ elapsed' = [t \in Tasks |->
                     IF pc[t] = "await_sleep"
                     THEN Min(elapsed[t] + 1, sleepFor[t] + MaxOvershoot)
                     ELSE elapsed[t]]
    /\ UNCHANGED <<callVars, pc, attempt, result, error, cancelled, sleepFor,
                   invocations, inflight, failures, response, pauses>>

\* The task is cancelled while it awaits chat.completions.create.
CancelCreate(t) ==
    /\ pc[t] = "await_create"
    /\ cancelled' = [cancelled EXCEPT ![t] = TRUE]
    /\ Resolve(t)
    /\ Propagate(t, CancelledError)
    /\ UNCHANGED <<callVars, attempt, result, invocations, failures, response,
                   pauses>>

\* The task is cancelled while it awaits beta.chat.completions.parse:
\* CancelledError is raised at the await, inside the try block.
CancelParse(t) ==
    /\ pc[t] = "await_parse"
    /\ cancelled' = [cancelled EXCEPT ![t] = TRUE]
    /\ Resolve(t)
    /\ ExceptHandler(t, CancelledError)
    /\ UNCHANGED <<callVars, attempt, result, invocations, failures, response>>

\* The task is cancelled while it awaits asyncio.sleep: CancelledError is
\* raised inside the except clause, which no try block encloses.
CancelSleep(t) ==
    /\ pc[t] = "await_sleep"
    /\ cancelled' = [cancelled EXCEPT ![t] = TRUE]
    /\ Propagate(t, CancelledError)
    /\ UNCHANGED <<callVars, attempt, result, invocations, inflight, failures,
                   response, pauses>>

Next ==
    \/ \E t \in Tasks : Call_get_completion(t)
    \/ \E t \in Tasks : \E r \in TextResponses : CreateReturns(t, r)
    \/ \E t \in Tasks : \E e \in TransportErrors : CreateRaises(t, e)
    \/ \E t \in Tasks : \E mr \in RetryArgs : \E delay \in DelayArgs :
          Call_get_completion_structured(t, mr, delay)
    \/ \E t \in Tasks : \E r \in ParsedResponses : ParseReturns(t, r)
    \/ \E t \in Tasks : \E e \in TransportErrors : ParseRaises(t, e)
    \/ \E t \in Tasks : SleepDone(t)
    \/ Tick
    \/ \E t \in Tasks : CancelCreate(t)
    \/ \E t \in Tasks : CancelParse(t)
    \/ \E t \in Tasks : CancelSleep(t)

Spec == Init /\ [][Next]_vars

\* The transport answers every request, the clock runs and a sleep whose
\* delay has elapsed returns; nothing obliges anyone to call or to cancel.
Fairness ==
    /\ \A t \in Tasks :
          WF_vars(\/ \E r \in TextResponses : CreateReturns(t, r)
                  \/ \E e \in TransportErrors : CreateRaises(t, e))
    /\ \A t \in Tasks :
          WF_vars(\/ \E r \in ParsedResponses : ParseReturns(t, r)
                  \/ \E e \in TransportErrors : ParseRaises(t, e))
    /\ \A t \in Tasks : WF_vars(SleepDone(t))
    /\ WF_vars(Tick)

FairSpec == Spec /\ Fairness

\* ------------------------------------------------------------ properties
Structured(t) == fn[t] = "get_completion_structured"
Raw(t) == fn[t] = "get_completion"
Terminal(t) == pc[t] \in {"returned", "raised"}

\* C1: when attempt k is the first attempt of a get_completion_structured
\* call on which the transport succeeds, the call has returned the parsed
\* object of that response, the transport has been invoked exactly k + 1
\* times, and nothing (no attempt, no pause) happens afterwards: there have
\* been exactly k pauses, one after each of the k failures.
C1_FirstSuccessReturns ==
    \A t \in Tasks :
        (Structured(t) /\ max_retries[t] >= 0 /\ response[t] # <<>>) =>
            /\ pc[t] = "returned"
            /\ result[t] = response[t][1].parsed
            /\ error[t] = NoError
            /\ attempt[t] = Len(failures[t])
            /\ attempt[t] <= max_retries[t]
            /\ invocations[t] = attempt[t] + 1
            /\ pauses[t] = attempt[t]
            /\ inflight[t] = 0

C1_Witness ==
    \E t \in Tasks :
        /\ Structured(t) /\ max_retries[t] = 2
        /\ Len(failures[t]) = 2
        /\ response[t] # <<>>
        /\ pc[t] = "returned" /\ result[t] = "obj"
        /\ invocations[t] = 3

\* C2: when the transport has failed on all max_retries + 1 attempts, with
\* whatever errors, the call has invoked it exactly max_retries + 1 times and
\* has raised the error of the last attempt; it has returned nothing.
C2_ExhaustedRaisesLast ==
    \A t \in Tasks :
        (Structured(t) /\ max_retries[t] >= 0
            /\ Len(failures[t]) = max_retries[t] + 1) =>
            /\ pc[t] = "raised"
            /\ error[t] = failures[t][max_retries[t] + 1]
            /\ invocations[t] = max_retries[t] + 1
            /\ inflight[t] = 0
            /\ result[t] = NoResult
            /\ response[t] = <<>>

C2_Witness ==
    \E t \in Tasks :
        /\ Structured(t) /\ max_retries[t] = 2
        /\ failures[t] = <<"ValidationError", "APIConnectionError",
                           "ValidationError">>
        /\ pc[t] = "raised" /\ error[t] = "ValidationError"

\* C3: every value get_completion_structured returns (max_retries >= 0) is
\* an instance of the caller's schema, never None.
C3_ReturnsSchemaInstance ==
    \A t \in Tasks :
        (Structured(t) /\ max_retries[t] >= 0 /\ pc[t] = "returned") =>
            result[t] \in SchemaInstances

\* C4: with max_retries = 0 the call invokes the transport exactly once and
\* never pauses: a success is returned, a failure is raised.
C4_ZeroRetriesOneAttempt ==
    \A t \in Tasks :
        (Structured(t) /\ max_retries[t] = 0) =>
            /\ invocations[t] = 1
            /\ pauses[t] = 0
            /\ pc[t] # "await_sleep"
            /\ response[t] # <<>> =>
                  pc[t] = "returned" /\ result[t] = response[t][1].parsed
            /\ failures[t] # <<>> =>
                  pc[t] = "raised" /\ error[t] = failures[t][1]

C4_Witness ==
    \E t, u \in Tasks :
        /\ Structured(t) /\ max_retries[t] = 0
        /\ Structured(u) /\ max_retries[u] = 0
        /\ pc[t] = "returned" /\ response[t] # <<>>
        /\ pc[u] = "raised" /\ Len(failures[u]) = 1

\* C5 as stated: the error surfaced after the retry budget is exhausted is
\* the error of the first attempt.
C5_RaisesFirstError ==
    \A t \in Tasks :
        (Structured(t) /\ pc[t] = "raised" /\ error[t] \in TransportErrors) =>
            error[t] = failures[t][1]

\* C5 amended: the error surfaced is a transport error only once the budget
\* is exhausted, and it is the error of the last attempt; it is the error of
\* the first attempt when max_retries = 0.
C5_RaisesLastError ==
    \A t \in Tasks :
        (Structured(t) /\ pc[t] = "raised" /\ error[t] \in TransportErrors) =>
            /\ Len(failures[t]) = max_retries[t] + 1
            /\ error[t] = failures[t][Len(failures[t])]
            /\ max_retries[t] = 0 => error[t] = failures[t][1]

C5_Witness ==
    \E t \in Tasks :
        /\ Structured(t) /\ max_retries[t] = 1
        /\ pc[t] = "raised" /\ error[t] = "ValidationError"
        /\ failures[t] = <<"APIConnectionError", "ValidationError">>

\* C6: a get_completion call invokes the transport exactly once and never
\* pauses; a response makes it return the content of the first choice, a
\* transport error makes it raise that error.
C6_RawSingleInvocation ==
    \A t \in Tasks :
        Raw(t) =>
            /\ invocations[t] = 1
            /\ pauses[t] = 0
            /\ pc[t] \in {"await_create", "returned", "raised"}
            /\ response[t] # <<>> =>
                  /\ pc[t] = "returned"
                  /\ result[t] = response[t][1].content
                  /\ error[t] = NoError
            /\ failures[t] # <<>> =>
                  /\ pc[t] = "raised"
                  /\ failures[t] = <<error[t]>>
                  /\ result[t] = NoResult

C6_Witness ==
    \E t, u \in Tasks :
        /\ Raw(t) /\ pc[t] = "returned" /\ result[t] = "pong"
        /\ response[t] # <<>>
        /\ Raw(u) /\ pc[u] = "raised" /\ error[u] = "APIConnectionError"

C8_CancellationAborts ==
    [][\A t \in Tasks :
          Structured(t) =>
            /\ (cancelled'[t] /\ ~cancelled[t]) =>
                  /\ pc'[t] = "raised"
                  /\ error'[t] = CancelledError
                  /\ inflight'[t] = 0
                  /\ invocations'[t] = invocations[t]
                  /\ pauses'[t] = pauses[t]
                  /\ failures'[t] = failures[t]
                  /\ result'[t] = NoResult
            /\ cancelled[t] =>
                  /\ pc'[t] = pc[t]
                  /\ error'[t] = error[t]
                  /\ invocations'[t] = invocations[t]
                  /\ pauses'[t] = pauses[t]
      ]_vars

C8_Witness ==
    \E t, u \in Tasks :
        /\ Structured(t) /\ cancelled[t] /\ pc[t] = "raised"
        /\ attempt[t] < max_retries[t] /\ Len(failures[t]) = attempt[t]
        /\ Structured(u) /\ cancelled[u] /\ pc[u] = "raised"
        /\ attempt[u] < max_retries[u] /\ Len(failures[u]) = attempt[u] + 1

\* C9: with several calls interleaved, each get_completion_structured call
\* with max_retries >= 0 has at most one request in flight, invokes the
\* transport at most max_retries + 1 times, is in at most one of the outcomes
\* returned / raised, keeps its outcome once it has one, and, when the
\* transport answers and the pauses end, reaches an outcome.
C9_EachCallTerminates ==
    /\ [](\A t \in Tasks :
            (Structured(t) /\ max_retries[t] >= 0) =>
                /\ inflight[t] \in {0, 1}
                /\ inflight[t] = 1 <=> pc[t] = "await_parse"
                /\ invocations[t] <= max_retries[t] + 1
                /\ pc[t] = "returned" <=> result[t] # NoResult
                /\ pc[t] = "raised" <=> error[t] # NoError)
    /\ [][\A t \in Tasks :
            Terminal(t) =>
                /\ pc'[t] = pc[t]
                /\ result'[t] = result[t]
                /\ error'[t] = error[t]
                /\ invocations'[t] = invocations[t]]_vars
    /\ \A t \in Tasks :
            (Structured(t) /\ max_retries[t] >= 0) ~> Terminal(t)

C9_Witness ==
    \E t, u \in Tasks :
        /\ Structured(t) /\ max_retries[t] = 2 /\ pc[t] = "returned"
        /\ invocations[t] = 3
        /\ Structured(u) /\ max_retries[u] = 1 /\ pc[u] = "raised"
        /\ invocations[u] = 2 /\ ~cancelled[u]

\* C10: called with a negative max_retries, get_completion_structured
\* invokes the transport zero times, never pauses, raises nothing and
\* returns None.
C10_NegativeRetriesReturnsNone ==
    \A t \in Tasks :
        (Structured(t) /\ max_retries[t] < 0) =>
            /\ pc[t] = "returned"
            /\ result[t] = None
            /\ error[t] = NoError
            /\ invocations[t] = 0
            /\ inflight[t] = 0
            /\ pauses[t] = 0
            /\ failures[t] = <<>> /\ response[t] = <<>>

C10_Witness ==
    \E t \in Tasks :
        /\ Structured(t) /\ max_retries[t] = -1
        /\ pc[t] = "returned" /\ result[t] = None /\ invocations[t] = 0

====
